---- MODULE Spec2Model ----
(***************************************************************************)
(* A model of tinycss/parser.py: the grouper (regroup), the serializer     *)
(* (as_css) and the recursive-descent parser for the CSS core syntax       *)
(* (parse_stylesheet, parse_at_rule, parse_ruleset, parse_declaration_list,*)
(* parse_declaration, parse_value, validate_block, validate_any).          *)
(*                                                                         *)
(* Python values are records tagged by `kind`:                             *)
(*   Token          [kind, type, as_css, value]        (tokenizer's token) *)
(*   ContainerToken [kind, type, css_start, css_end, content]              *)
(*   FunctionToken  the same plus function_name                            *)
(*   str            [kind, chars]      None   [kind]                       *)
(*   list           [kind, items]      tuple  [kind, items]                *)
(* Text is a sequence of one-character strings, so that concatenation and  *)
(* lower-casing are computed and not assumed.  The line and column of a    *)
(* token are copied around by the code and never read by its control flow; *)
(* they are left out of the records.                                       *)
(*                                                                         *)
(* A call returns a record whose field `exc` names the exception that      *)
(* leaves the call ("none" when it returns normally).  An iterator shared  *)
(* between caller and callee is the pair of the token sequence and the     *)
(* index of the next token; a call returns the index it leaves behind.     *)
(***************************************************************************)
EXTENDS FiniteSets, Integers, Sequences, TLC

VARIABLES flat, tree, text, result, pc

vars == <<flat, tree, text, result, pc>>

(***************************************************************************)
(* Bounds of the model.                                                    *)
(***************************************************************************)
MaxGroupLen == 5
MaxSheetLen == 4
MaxDeclLen == 4

(***************************************************************************)
(* Python objects.                                                         *)
(***************************************************************************)
None == [kind |-> "None"]

PyStr(chars) == [kind |-> "str", chars |-> chars]

PyList(items) == [kind |-> "list", items |-> items]

PyTuple(items) == [kind |-> "tuple", items |-> items]

Token(type_, css, value) ==
    [kind |-> "Token", type |-> type_, as_css |-> css, value |-> value]

ContainerToken(type_, css_start, css_end, content) ==
    [kind |-> "ContainerToken", type |-> type_, css_start |-> css_start,
     css_end |-> css_end, content |-> content]

FunctionToken(type_, css_start, css_end, function_name, content) ==
    [kind |-> "FunctionToken", type |-> type_, css_start |-> css_start,
     css_end |-> css_end, function_name |-> function_name,
     content |-> content]

IsTokenObject(obj) == obj.kind \in {"Token", "ContainerToken", "FunctionToken"}

IsContainer(obj) == obj.kind \in {"ContainerToken", "FunctionToken"}

\* str.lower(), one character at a time.
LowerChar(c) ==
    CASE c = "A" -> "a"
      [] c = "B" -> "b"
      [] c = "I" -> "i"
      [] OTHER -> c

Lower(chars) == [i \in 1..Len(chars) |-> LowerChar(chars[i])]

(***************************************************************************)
(* The tokens the model feeds to the grouper.                              *)
(***************************************************************************)
tIdent == Token("IDENT", <<"a">>, <<"a">>)
tIDENT == Token("IDENT", <<"A">>, <<"A">>)
tS == Token("S", <<" ">>, <<" ">>)
tColon == Token(":", <<":">>, <<":">>)
tSemi == Token(";", <<";">>, <<";">>)
tNumber == Token("NUMBER", <<"1">>, <<"1">>)
tString == Token("STRING", <<"'", "x", "'">>, <<"x">>)
tAt == Token("ATKEYWORD", <<"@", "I">>, <<"@", "I">>)
tCDO == Token("CDO", <<"<", "!", "-", "-">>, <<"<", "!", "-", "-">>)
tLBrace == Token("{", <<"{">>, <<"{">>)
tRBrace == Token("}", <<"}">>, <<"}">>)
tLParen == Token("(", <<"(">>, <<"(">>)
tRParen == Token(")", <<")">>, <<")">>)
tLBracket == Token("[", <<"[">>, <<"[">>)
tRBracket == Token("]", <<"]">>, <<"]">>)
tFunction == Token("FUNCTION", <<"f", "(">>, <<"f">>)

(***************************************************************************)
(* regroup                                                                 *)
(***************************************************************************)
OpeningTypes == {"FUNCTION", "(", "[", "{"}

\* pairs.get(type_): the closing type of an opening type, "None" otherwise.
PairsGet(type_) ==
    CASE type_ = "FUNCTION" -> ")"
      [] type_ = "(" -> ")"
      [] type_ = "[" -> "]"
      [] type_ = "{" -> "}"
      [] OTHER -> "None"

RECURSIVE RegroupFrom(_, _, _)

\* regroup without the implicit close: an opening token whose closing token
\* never comes is yielded as it is, followed by what came after it.
RegroupFromNoImplicitClose(tokens, i, stop_at) ==
    IF i > Len(tokens)
    THEN [out |-> <<>>, pos |-> i, closed |-> stop_at = "None"]
    ELSE LET token == tokens[i]
             end == PairsGet(token.type)
         IN  IF token.type = stop_at
             THEN [out |-> <<>>, pos |-> i + 1, closed |-> TRUE]
             ELSE IF end = "None"
             THEN LET r == RegroupFrom(tokens, i + 1, stop_at)
                  IN  [out |-> <<token>> \o r.out, pos |-> r.pos,
                       closed |-> r.closed]
             ELSE LET inner == RegroupFrom(tokens, i + 1, end)
                      rest == RegroupFrom(tokens, inner.pos, stop_at)
                      made == IF token.type = "FUNCTION"
                              THEN FunctionToken(token.type, token.as_css,
                                                 <<end>>, token.value,
                                                 inner.out)
                              ELSE ContainerToken(token.type, token.as_css,
                                                  <<end>>, inner.out)
                  IN  IF inner.closed
                      THEN [out |-> <<made>> \o rest.out, pos |-> rest.pos,
                            closed |-> rest.closed]
                      ELSE [out |-> <<token>> \o inner.out, pos |-> rest.pos,
                            closed |-> rest.closed]

\* regroup with the closing token yielded into the content it ends
\* (a "yield token" before the "return" of line 112).
RegroupFromKeepCloser(tokens, i, stop_at) ==
    IF i > Len(tokens) THEN [out |-> <<>>, pos |-> i]
    ELSE LET token == tokens[i]
             end == PairsGet(token.type)
         IN  IF token.type = stop_at THEN [out |-> <<token>>, pos |-> i + 1]
             ELSE IF end = "None"
             THEN LET r == RegroupFrom(tokens, i + 1, stop_at)
                  IN  [out |-> <<token>> \o r.out, pos |-> r.pos]
             ELSE LET inner == RegroupFrom(tokens, i + 1, end)
                      rest == RegroupFrom(tokens, inner.pos, stop_at)
                      made == IF token.type = "FUNCTION"
                              THEN FunctionToken(token.type, token.as_css,
                                                 <<end>>, token.value,
                                                 inner.out)
                              ELSE ContainerToken(token.type, token.as_css,
                                                  <<end>>, inner.out)
                  IN  [out |-> <<made>> \o rest.out, pos |-> rest.pos]

\* regroup(tokens, stop_at) run on the iterator (tokens, i): the tokens it
\* yields and the index at which it leaves the iterator.
RegroupFrom(tokens, i, stop_at) ==
    IF i > Len(tokens) THEN [out |-> <<>>, pos |-> i]
    ELSE LET token == tokens[i]
             end == PairsGet(token.type)
         IN  IF token.type = stop_at THEN [out |-> <<>>, pos |-> i + 1]
             ELSE IF end = "None"
             THEN LET r == RegroupFrom(tokens, i + 1, stop_at)
                  IN  [out |-> <<token>> \o r.out, pos |-> r.pos]
             ELSE LET inner == RegroupFrom(tokens, i + 1, end)
                      rest == RegroupFrom(tokens, inner.pos, stop_at)
                      made == IF token.type = "FUNCTION"
                              THEN FunctionToken(token.type, token.as_css,
                                                 <<end>>, token.value,
                                                 inner.out)
                              ELSE ContainerToken(token.type, token.as_css,
                                                  <<end>>, inner.out)
                  IN  [out |-> <<made>> \o rest.out, pos |-> rest.pos]

regroup(tokens) == RegroupFrom(tokens, 1, "None").out

(***************************************************************************)
(* ContainerToken.as_css and the tokenizer's Token.as_css                  *)
(***************************************************************************)
RECURSIVE as_css(_)

RECURSIVE JoinAsCss(_)

\* ''.join(token.as_css for token in tokens)
JoinAsCss(tokens) ==
    IF tokens = <<>> THEN <<>>
    ELSE as_css(Head(tokens)) \o JoinAsCss(Tail(tokens))

as_css(token) ==
    IF IsContainer(token)
    THEN token.css_start \o JoinAsCss(token.content) \o token.css_end
    ELSE token.as_css

(***************************************************************************)
(* Outcomes of a call.                                                     *)
(***************************************************************************)
\* ParseError(token, reason)
ParseError(token, reason) ==
    [kind |-> "ParseError", token |-> token, reason |-> reason]

\* the call returns ret, leaving a shared iterator at pos
Return(ret, pos) == [exc |-> "none", ret |-> ret, error |-> None, pos |-> pos]

\* the call is left by an exception of the named class
Raise(exc, pos) == [exc |-> exc, ret |-> None, error |-> None, pos |-> pos]

\* raise ParseError(token, reason)
RaiseParseError(token, reason, pos) ==
    [exc |-> "ParseError", ret |-> None, error |-> ParseError(token, reason),
     pos |-> pos]

\* "raise UnexpectedToken(...)": no UnexpectedToken is defined in the module
\* (the class is named UnexpectedTokenError), so evaluating the name raises
\* NameError before any ParseError is built.
RaiseUnexpectedToken == "NameError"

(***************************************************************************)
(* validate_any and validate_block                                         *)
(***************************************************************************)
AnyTypes ==
    {"S", "IDENT", "DIMENSION", "PERCENTAGE", "NUMBER", "URI", "DELIM",
     "STRING", "HASH", "ATKEYWORD", ":", "UNICODE-RANGE", "INCLUDES",
     "DASHMATCH"}

RECURSIVE validate_any(_)

RECURSIVE ValidateAnyEach(_)

\* "for token in tokens: validate_any(token, ...)": the first exception
ValidateAnyEach(tokens) ==
    IF tokens = <<>> THEN "none"
    ELSE LET e == validate_any(Head(tokens))
         IN  IF e /= "none" THEN e ELSE ValidateAnyEach(Tail(tokens))

\* The exception validate_any(token, context) raises, "none" if it returns.
validate_any(token) ==
    IF ~IsTokenObject(token) THEN "AttributeError"
    ELSE IF token.type \in {"FUNCTION", "(", "["}
    THEN IF IsContainer(token) THEN ValidateAnyEach(token.content)
         ELSE "AttributeError"
    ELSE IF token.type \notin AnyTypes THEN RaiseUnexpectedToken
    ELSE "none"

RECURSIVE validate_block(_)

RECURSIVE ValidateBlockEach(_)

\* the body of the loop of validate_block, over the items of a list
ValidateBlockEach(items) ==
    IF items = <<>> THEN "none"
    ELSE LET token == Head(items)
             e == IF ~IsTokenObject(token) THEN "AttributeError"
                  ELSE IF token.type = "{"
                  THEN IF token.kind = "Token"
                       THEN validate_block(PyStr(token.value))
                       ELSE "AttributeError"
                  ELSE IF token.type \notin {";", "ATKEYWORD"}
                  THEN validate_any(token)
                  ELSE "none"
         IN  IF e /= "none" THEN e ELSE ValidateBlockEach(Tail(items))

\* The exception validate_block(tokens, context) raises, "none" if it
\* returns.  "for token in tokens" needs an iterable: a list, or a str, whose
\* items are str; a token has neither __iter__ nor __getitem__.
validate_block(tokens) ==
    IF tokens.kind = "list" THEN ValidateBlockEach(tokens.items)
    ELSE IF tokens.kind = "str"
    THEN ValidateBlockEach([i \in 1..Len(tokens.chars) |->
                               PyStr(<<tokens.chars[i]>>)])
    ELSE "TypeError"

(***************************************************************************)
(* parse_value                                                             *)
(***************************************************************************)
RECURSIVE StripTrailingS(_)

\* while content and content[-1].type == 'S': content.pop()
StripTrailingS(content) ==
    IF content /= <<>> /\ content[Len(content)].type = "S"
    THEN StripTrailingS(SubSeq(content, 1, Len(content) - 1))
    ELSE content

RECURSIVE ParseValueLoop(_, _, _)

\* the loop of parse_value on the iterator (tokens, i)
ParseValueLoop(tokens, i, content) ==
    IF i > Len(tokens) THEN Return(PyList(StripTrailingS(content)), i)
    ELSE LET token == tokens[i]
         IN  IF content /= <<>> \/ token.type /= "S"
             THEN LET e == IF token.type = "{" THEN validate_block(token)
                           ELSE validate_any(token)
                  IN  IF e /= "none" THEN Raise(e, i + 1)
                      ELSE ParseValueLoop(tokens, i + 1,
                                          Append(content, token))
             ELSE ParseValueLoop(tokens, i + 1, content)

parse_value(tokens, i) == ParseValueLoop(tokens, i, <<>>)

(***************************************************************************)
(* parse_declaration                                                       *)
(***************************************************************************)
RECURSIVE ColonSearch(_, _, _)

\* the for/else loop that looks for ':'; token is the last token read
ColonSearch(tokens, i, token) ==
    IF i > Len(tokens) THEN RaiseParseError(token, "expected ':'", i)
    ELSE IF tokens[i].type = ":" THEN Return(tokens[i], i + 1)
    ELSE IF tokens[i].type /= "S" THEN Raise(RaiseUnexpectedToken, i + 1)
    ELSE ColonSearch(tokens, i + 1, tokens[i])

\* the end of parse_declaration, value being the outcome of parse_value and
\* token the ':' token
DeclarationValue(property_name, token, value) ==
    IF value.exc /= "none" THEN value
    ELSE IF value.ret.items = <<>>
    THEN RaiseParseError(token, "expected a property value", value.pos)
    ELSE Return(PyTuple(<<PyStr(property_name), value.ret>>), value.pos)

\* parse_declaration from the search for ':' on, colon being its outcome
DeclarationAfterName(tokens, property_name, colon) ==
    IF colon.exc /= "none" THEN colon
    ELSE DeclarationValue(property_name, colon.ret,
                          parse_value(tokens, colon.pos))

\* parse_declaration(tokens), tokens a list of at least one token
parse_declaration(tokens) ==
    IF tokens[1].type /= "IDENT" THEN Raise(RaiseUnexpectedToken, 2)
    ELSE DeclarationAfterName(tokens, Lower(tokens[1].value),
                              ColonSearch(tokens, 2, tokens[1]))

(***************************************************************************)
(* parse_declaration_list                                                  *)
(***************************************************************************)
RECURSIVE SplitParts(_, _, _)

\* the loop that splits at ';' and the "if this_part" after it
SplitParts(tokens, parts, this_part) ==
    IF tokens = <<>>
    THEN IF this_part /= <<>> THEN Append(parts, this_part) ELSE parts
    ELSE LET token == Head(tokens)
         IN  IF token.type = ";" /\ this_part /= <<>>
             THEN SplitParts(Tail(tokens), Append(parts, this_part), <<>>)
             ELSE IF this_part /= <<>> \/ token.type /= "S"
             THEN SplitParts(Tail(tokens), parts, Append(this_part, token))
             ELSE SplitParts(Tail(tokens), parts, this_part)

RECURSIVE DeclarationsLoop(_, _, _)

\* the try/except around parse_declaration, d being the outcome of the call
\* and parts the parts still to parse
DeclarationsTry(d, parts, declarations, errors) ==
    IF d.exc = "none"
    THEN DeclarationsLoop(parts, Append(declarations, d.ret), errors)
    ELSE IF d.exc = "ParseError"
    THEN DeclarationsLoop(parts, declarations, Append(errors, d.error))
    ELSE Raise(d.exc, 0)

\* "for part in parts: try ... except ParseError"
DeclarationsLoop(parts, declarations, errors) ==
    IF parts = <<>>
    THEN Return(PyTuple(<<PyList(declarations), PyList(errors)>>), 0)
    ELSE DeclarationsTry(parse_declaration(Head(parts)), Tail(parts),
                         declarations, errors)

\* parse_declaration_list(tokens), tokens the content of a block
parse_declaration_list(tokens) ==
    DeclarationsLoop(SplitParts(tokens, <<>>, <<>>), <<>>, <<>>)

(***************************************************************************)
(* parse_ruleset                                                           *)
(***************************************************************************)
\* "return selector, declarations, errors", parsed being the outcome of
\* parse_declaration_list
RulesetReturn(selector, parsed, i) ==
    IF parsed.exc /= "none" THEN Raise(parsed.exc, i)
    ELSE Return(PyTuple(<<selector, parsed.ret.items[1],
                          parsed.ret.items[2]>>), i)

\* the branch "if token.type == '{'" of parse_ruleset, e being the outcome
\* of validating the selector; the iterator is at i
RulesetBlock(token, i, selector_parts, e) ==
    IF e /= "none" THEN Raise(e, i)
    ELSE IF ~IsContainer(token) THEN Raise("AttributeError", i)
    ELSE RulesetReturn(ContainerToken("SELECTOR", <<>>, <<>>, selector_parts),
                       parse_declaration_list(token.content), i)

RECURSIVE RulesetLoop(_, _, _, _)

\* "for token in chain([first_token], tokens)" with token the current item
\* and the iterator at i; falling off the loop returns None
RulesetLoop(token, tokens, i, selector_parts) ==
    IF token.type = "{"
    THEN RulesetBlock(token, i, selector_parts,
                      ValidateAnyEach(selector_parts))
    ELSE IF i > Len(tokens) THEN Return(None, i)
    ELSE RulesetLoop(tokens[i], tokens, i + 1, Append(selector_parts, token))

parse_ruleset(first_token, tokens, i) ==
    RulesetLoop(first_token, tokens, i, <<>>)

(***************************************************************************)
(* parse_at_rule                                                           *)
(***************************************************************************)
\* "token.type in '{;'" is a substring test
SubstringsOfBraceSemicolon == {"", "{", ";", "{;"}

RECURSIVE ValidateHead(_)

\* "for head_token in head: validate_any(head_token.value, ...)": only the
\* tokenizer's tokens have a value, and it is a str
ValidateHead(head) ==
    IF head = <<>> THEN "none"
    ELSE LET head_token == Head(head)
             e == IF head_token.kind /= "Token" THEN "AttributeError"
                  ELSE validate_any(PyStr(head_token.value))
         IN  IF e /= "none" THEN e ELSE ValidateHead(Tail(head))

RECURSIVE AtRuleLoop(_, _, _, _)

\* the loop of parse_at_rule; falling off the loop returns None
AtRuleLoop(at_keyword, tokens, i, head) ==
    IF i > Len(tokens) THEN Return(None, i)
    ELSE LET token == tokens[i]
         IN  IF token.type \in SubstringsOfBraceSemicolon
             THEN LET e == ValidateHead(head)
                      body == IF token.type = "{" THEN token ELSE None
                  IN  IF e /= "none" THEN Raise(e, i + 1)
                      ELSE Return(PyTuple(<<PyStr(at_keyword), PyList(head),
                                            body>>), i + 1)
             ELSE IF head /= <<>> \/ token.type /= "S"
             THEN AtRuleLoop(at_keyword, tokens, i + 1, Append(head, token))
             ELSE AtRuleLoop(at_keyword, tokens, i + 1, head)

parse_at_rule(at_keyword_token, tokens, i) ==
    AtRuleLoop(Lower(at_keyword_token.value), tokens, i, <<>>)

(***************************************************************************)
(* parse_stylesheet                                                        *)
(***************************************************************************)
RECURSIVE StylesheetLoop(_, _, _, _)

\* "rules.append(parse_at_rule(token, tokens))" inside the try/except, r
\* being the outcome of the call
StylesheetAtRule(r, tokens, rules, errors) ==
    IF r.exc = "none"
    THEN StylesheetLoop(tokens, r.pos, Append(rules, r.ret), errors)
    ELSE IF r.exc = "ParseError"
    THEN StylesheetLoop(tokens, r.pos, rules, Append(errors, r.error))
    ELSE Raise(r.exc, r.pos)

\* "selector, declarations, rule_errors = parse_ruleset(token, tokens)" and
\* the two lines after it inside the try/except, r being the outcome of the
\* call; None cannot be unpacked
StylesheetRuleset(r, tokens, rules, errors) ==
    IF r.exc = "none"
    THEN IF r.ret = None THEN Raise("TypeError", r.pos)
         ELSE StylesheetLoop(tokens, r.pos,
                             Append(rules, PyTuple(<<None, r.ret.items[1],
                                                     r.ret.items[2]>>)),
                             errors \o r.ret.items[3].items)
    ELSE IF r.exc = "ParseError"
    THEN StylesheetLoop(tokens, r.pos, rules, Append(errors, r.error))
    ELSE Raise(r.exc, r.pos)

\* the loop of parse_stylesheet on the iterator (tokens, i)
StylesheetLoop(tokens, i, rules, errors) ==
    IF i > Len(tokens)
    THEN Return(PyTuple(<<PyList(rules), PyList(errors)>>), i)
    ELSE IF tokens[i].type \in {"S", "CDO", "CDC"}
    THEN StylesheetLoop(tokens, i + 1, rules, errors)
    ELSE IF tokens[i].type = "ATKEYWORD"
    THEN StylesheetAtRule(parse_at_rule(tokens[i], tokens, i + 1), tokens,
                          rules, errors)
    ELSE StylesheetRuleset(parse_ruleset(tokens[i], tokens, i + 1), tokens,
                           rules, errors)

\* parse_stylesheet(tokens), tokens an iterator as parse() passes it
parse_stylesheet(tokens) == StylesheetLoop(tokens, 1, <<>>, <<>>)

(***************************************************************************)
(* The grouper and the serializer on every short token sequence.           *)
(***************************************************************************)
GroupAlphabet ==
    {tIdent, tLParen, tRParen, tLBrace, tRBrace, tLBracket, tRBracket,
     tFunction}

\* '((((a))))', 'f(a)', '[a]' and '( ]'
GroupExamples ==
    { <<tLParen, tLParen, tLParen, tLParen, tIdent,
        tRParen, tRParen, tRParen, tRParen>>,
      <<tLBracket, tIdent, tRBracket>>,
      <<tLBracket, tLParen, tRBracket, tRParen>> }

InitGroup ==
    /\ flat \in {<<>>} \cup GroupExamples
    /\ tree = <<>>
    /\ text = <<>>
    /\ result = None
    /\ pc = "input"

AddGroupToken ==
    /\ pc = "input"
    /\ Len(flat) < MaxGroupLen
    /\ \E t \in GroupAlphabet : flat' = Append(flat, t)
    /\ UNCHANGED <<tree, text, result, pc>>

\* tokens = regroup(iter(...)), read to its end
Group ==
    /\ pc = "input"
    /\ tree' = regroup(flat)
    /\ pc' = "grouped"
    /\ UNCHANGED <<flat, text, result>>

\* the text of the tree: as_css of every token of it, concatenated
Serialize ==
    /\ pc = "grouped"
    /\ text' = JoinAsCss(tree)
    /\ pc' = "serialized"
    /\ UNCHANGED <<flat, tree, result>>

NextGroup == AddGroupToken \/ Group \/ Serialize

SpecGroup == InitGroup /\ [][NextGroup]_vars

(***************************************************************************)
(* What the grouper is to do, stated on the flat sequence with a stack of  *)
(* the closing types that are awaited.                                     *)
(***************************************************************************)
RECURSIVE SourceText(_)

\* the source texts of the flat tokens, concatenated
SourceText(tokens) ==
    IF tokens = <<>> THEN <<>>
    ELSE Head(tokens).as_css \o SourceText(Tail(tokens))

RECURSIVE OpenBefore(_, _)

\* the closing types awaited just before token i, the innermost one last
OpenBefore(tokens, i) ==
    IF i = 1 THEN <<>>
    ELSE LET st == OpenBefore(tokens, i - 1)
             t == tokens[i - 1].type
         IN  IF t \in OpeningTypes THEN Append(st, PairsGet(t))
             ELSE IF st /= <<>> /\ st[Len(st)] = t
             THEN SubSeq(st, 1, Len(st) - 1)
             ELSE st

\* token i is the closing token of the innermost open container
ClosesInnermost(tokens, i) ==
    LET st == OpenBefore(tokens, i)
    IN  st /= <<>> /\ st[Len(st)] = tokens[i].type

RECURSIVE KeptFrom(_, _)

\* type, text and nesting depth of every token from i on that is not the
\* closing token of the innermost open container
KeptFrom(tokens, i) ==
    IF i > Len(tokens) THEN <<>>
    ELSE (IF ClosesInnermost(tokens, i) THEN <<>>
          ELSE << <<tokens[i].type, tokens[i].as_css,
                    Len(OpenBefore(tokens, i))>> >>)
         \o KeptFrom(tokens, i + 1)

RECURSIVE Preorder(_, _)

\* type, opening text and depth of every node of a tree, parents first
Preorder(nodes, depth) ==
    IF nodes = <<>> THEN <<>>
    ELSE LET n == Head(nodes)
         IN  (IF IsContainer(n)
              THEN << <<n.type, n.css_start, depth>> >>
                   \o Preorder(n.content, depth + 1)
              ELSE << <<n.type, n.as_css, depth>> >>)
             \o Preorder(Tail(nodes), depth)

RECURSIVE NoBareOpener(_)

\* no token of an opening type is left that is not a container
NoBareOpener(nodes) ==
    \A k \in 1..Len(nodes) :
        /\ nodes[k].type \in OpeningTypes => IsContainer(nodes[k])
        /\ IsContainer(nodes[k]) => NoBareOpener(nodes[k].content)

RECURSIVE NoOwnCloser(_)

\* no container holds, as a child, a token of its own closing type
NoOwnCloser(nodes) ==
    \A k \in 1..Len(nodes) :
        IsContainer(nodes[k]) =>
            /\ \A c \in 1..Len(nodes[k].content) :
                   nodes[k].content[c].type /= PairsGet(nodes[k].type)
            /\ NoOwnCloser(nodes[k].content)

\* the container an opening token becomes, given its content
Paren(content) == ContainerToken("(", <<"(">>, <<")">>, content)

Bracket(content) == ContainerToken("[", <<"[">>, <<"]">>, content)

Brace(content) == ContainerToken("{", <<"{">>, <<"}">>, content)

\* the token of a closing type
CloserToken(type_) ==
    CASE type_ = ")" -> tRParen
      [] type_ = "]" -> tRBracket
      [] type_ = "}" -> tRBrace

\* the closing tokens a truncated input lacks, innermost first
MissingClosers(tokens) ==
    LET st == OpenBefore(tokens, Len(tokens) + 1)
    IN  [k \in 1..Len(st) |-> CloserToken(st[Len(st) + 1 - k])]

(***************************************************************************)
(* C5: round trip.  For every flat token sequence, balanced or not, the    *)
(* as_css texts of the tree regroup returns, concatenated, are exactly the *)
(* source texts of the input tokens, concatenated.                         *)
(***************************************************************************)
C5_RoundTrip == pc = "serialized" => text = SourceText(flat)

(***************************************************************************)
(* C8: grouper well-formedness.  The tree regroup returns holds, in input  *)
(* order and at the depth of the containers open around it, every token    *)
(* except the closing tokens of the innermost open container: each opening *)
(* token as a container, every other closing token unchanged, every other *)
(* token once.  No opening token is left bare, no container holds a token  *)
(* of its own closing type, and '((((a))))' becomes four nested containers *)
(* of one child each.                                                      *)
(***************************************************************************)
C8_GrouperWellFormed ==
    pc /= "input" =>
        /\ Preorder(tree, 0) = KeptFrom(flat, 1)
        /\ NoBareOpener(tree)
        /\ NoOwnCloser(tree)
        /\ flat = <<tLParen, tLParen, tLParen, tLParen, tIdent,
                    tRParen, tRParen, tRParen, tRParen>>
           => tree = <<Paren(<<Paren(<<Paren(<<Paren(<<tIdent>>)>>)>>)>>)>>

\* '[(])' is grouped: ')' closes '(', ']' inside '(' is kept, '[' is closed
\* by the end of the input
C8_Witness ==
    /\ pc = "grouped"
    /\ flat = <<tLBracket, tLParen, tRBracket, tRParen>>
    /\ tree = <<Bracket(<<Paren(<<tRBracket>>)>>)>>

(***************************************************************************)
(* parse_stylesheet on the grouped form of every short token sequence.     *)
(***************************************************************************)
SheetAlphabet ==
    {tIdent, tIDENT, tS, tColon, tSemi, tAt, tString, tCDO, tLBrace, tRBrace,
     tLParen, tRParen}

\* 'a { a: a', '@I 'x';', 'a{a:a;a}@I;a{A:A}' and 'a ) { a:a }'
SheetExamples ==
    { <<tIdent, tS, tLBrace, tS, tIdent, tColon, tS, tIdent>>,
      <<tAt, tS, tString, tSemi>>,
      <<tIdent, tLBrace, tIdent, tColon, tIdent, tSemi, tIdent, tRBrace,
        tAt, tSemi, tIdent, tLBrace, tIDENT, tColon, tIDENT, tRBrace>>,
      <<tIdent, tRParen, tLBrace, tIdent, tColon, tIdent, tRBrace>> }

InitSheet ==
    /\ flat \in {<<>>} \cup SheetExamples
    /\ tree = <<>>
    /\ text = <<>>
    /\ result = None
    /\ pc = "input"

AddSheetToken ==
    /\ pc = "input"
    /\ Len(flat) < MaxSheetLen
    /\ \E t \in SheetAlphabet : flat' = Append(flat, t)
    /\ UNCHANGED <<tree, text, result, pc>>

\* parse(): parse_stylesheet(tokens) on the grouped tokens
ParseStylesheet ==
    /\ pc = "grouped"
    /\ result' = parse_stylesheet(tree)
    /\ pc' = "parsed"
    /\ UNCHANGED <<flat, tree, text>>

NextSheet == AddSheetToken \/ Group \/ ParseStylesheet

SpecSheet == InitSheet /\ [][NextSheet]_vars

(***************************************************************************)
(* What the parser is to do, stated on the grouped tokens.                 *)
(***************************************************************************)
RECURSIVE AnyProduction(_)

\* a token satisfies 'any': a simple token, or a function, '(' or '['
\* container all of whose children satisfy 'any'
AnyProduction(token) ==
    IF token.type \in {"FUNCTION", "(", "["}
    THEN /\ IsContainer(token)
         /\ \A k \in 1..Len(token.content) : AnyProduction(token.content[k])
    ELSE token.type \in AnyTypes

RECURSIVE BlockProduction(_)

\* the children of a '{' container satisfy 'block'
BlockProduction(token) ==
    \A k \in 1..Len(token.content) :
        LET child == token.content[k]
        IN  IF child.type = "{" THEN BlockProduction(child)
            ELSE child.type \in {";", "ATKEYWORD"} \/ AnyProduction(child)

RECURSIVE DropLeadingS(_)

\* a token sequence without its leading run of whitespace
DropLeadingS(tokens) ==
    IF tokens /= <<>> /\ Head(tokens).type = "S"
    THEN DropLeadingS(Tail(tokens))
    ELSE tokens

\* the least index from i on whose token has one of the types, 0 if none
FirstOfType(tokens, i, types) ==
    LET found == {j \in i..Len(tokens) : tokens[j].type \in types}
    IN  IF found = {} THEN 0
        ELSE CHOOSE j \in found : \A k \in found : j <= k

RECURSIVE StatementsFrom(_, _)

\* the top-level statements from token i on: an at-rule runs from its
\* at-keyword to the first ';' or '{', a ruleset from its first token to the
\* first '{'; either is cut off if the tokens end before
StatementsFrom(tokens, i) ==
    IF i > Len(tokens) THEN <<>>
    ELSE IF tokens[i].type \in {"S", "CDO", "CDC"}
    THEN StatementsFrom(tokens, i + 1)
    ELSE LET at == tokens[i].type = "ATKEYWORD"
             stop == IF at THEN FirstOfType(tokens, i + 1, {"{", ";"})
                     ELSE FirstOfType(tokens, i, {"{"})
             last == IF stop = 0 THEN Len(tokens) ELSE stop
         IN  <<[first |-> i, last |-> last, at |-> at, cut |-> stop = 0]>>
             \o StatementsFrom(tokens, last + 1)

\* a sequence without its items from first to last
Without(seq, first, last) ==
    SubSeq(seq, 1, first - 1) \o SubSeq(seq, last + 1, Len(seq))

\* the pair (rules, errors) expected of parse_stylesheet
SheetResult(rules, errors) == PyTuple(<<PyList(rules), PyList(errors)>>)

(***************************************************************************)
(* C1: for every finite grouped token sequence parse_stylesheet returns a  *)
(* (rules, errors) pair; no exception of any kind escapes it.              *)
(***************************************************************************)
C1_AlwaysReturnsPair ==
    pc = "parsed" =>
        /\ result.exc = "none"
        /\ result.ret.kind = "tuple"
        /\ Len(result.ret.items) = 2

(***************************************************************************)
(* C2: statement-fatal recovery.  A top-level ruleset whose selector holds *)
(* a token that does not satisfy 'any' adds exactly one error and no rule, *)
(* and the other statements yield the rules and errors they yield when the *)
(* bad statement is absent.                                                *)
(***************************************************************************)
C2_SelectorAllOrNothing ==
    pc = "parsed" =>
        \A k \in 1..Len(StatementsFrom(tree, 1)) :
            LET st == StatementsFrom(tree, 1)[k]
                rest == parse_stylesheet(Without(tree, st.first, st.last))
            IN  (/\ ~st.at
                 /\ ~st.cut
                 /\ \E j \in st.first..(st.last - 1) :
                        ~AnyProduction(tree[j])
                 /\ rest.exc = "none")
                => /\ result.exc = "none"
                   /\ result.ret.items[1] = rest.ret.items[1]
                   /\ \E e \in 1..Len(result.ret.items[2].items) :
                          Without(result.ret.items[2].items, e, e)
                              = rest.ret.items[2].items

(***************************************************************************)
(* C6: implicit close.  When the input ends while containers are open,     *)
(* regroup returns the tree it returns for the input with the missing      *)
(* closing tokens appended innermost first, and parse_stylesheet returns   *)
(* for the truncated input what it returns for the completed one.          *)
(***************************************************************************)
C6_ImplicitClose ==
    pc /= "input" =>
        LET closed == regroup(flat \o MissingClosers(flat))
        IN  /\ tree = closed
            /\ pc = "parsed" =>
                   /\ result.exc = parse_stylesheet(closed).exc
                   /\ result.ret = parse_stylesheet(closed).ret

\* 'a { a: a' is parsed: one ruleset with the declaration a: a, no error
C6_Witness ==
    /\ pc = "parsed"
    /\ flat = <<tIdent, tS, tLBrace, tS, tIdent, tColon, tS, tIdent>>
    /\ MissingClosers(flat) = <<tRBrace>>
    /\ tree = <<tIdent, tS, Brace(<<tS, tIdent, tColon, tS, tIdent>>)>>
    /\ result.exc = "none"
    /\ result.ret =
           SheetResult(
               <<PyTuple(<<None,
                           ContainerToken("SELECTOR", <<>>, <<>>,
                                          <<tIdent, tS>>),
                           PyList(<<PyTuple(<<PyStr(<<"a">>),
                                              PyList(<<tIdent>>)>>)>>)>>)>>,
               <<>>)

(***************************************************************************)
(* C7: at-rule terminated by ';'.  For a sheet that is an at-keyword, head *)
(* tokens that all satisfy 'any' and a top-level ';', parse_stylesheet     *)
(* returns one at-rule and no error: the keyword lower-cased, the head     *)
(* tokens without the whitespace that follows the keyword, no body.        *)
(***************************************************************************)
C7_AtRuleSemicolon ==
    (/\ pc = "parsed"
     /\ Len(tree) >= 2
     /\ tree[1].type = "ATKEYWORD"
     /\ tree[Len(tree)].type = ";"
     /\ \A k \in 2..(Len(tree) - 1) :
            tree[k].type \notin {"{", ";"} /\ AnyProduction(tree[k]))
    => /\ result.exc = "none"
       /\ result.ret =
              SheetResult(
                  <<PyTuple(<<PyStr(Lower(tree[1].value)),
                              PyList(DropLeadingS(
                                         SubSeq(tree, 2, Len(tree) - 1))),
                              None>>)>>,
                  <<>>)

(***************************************************************************)
(* C9: at-rule head cut off by the end of the input.  When the tokens end  *)
(* after an at-keyword before a top-level ';' or '{', parse_stylesheet     *)
(* adds nothing for that at-rule: the rules and the errors are those of    *)
(* the statements before it.                                               *)
(***************************************************************************)
C9_CutOffAtRuleAddsNothing ==
    (/\ pc = "parsed"
     /\ StatementsFrom(tree, 1) /= <<>>)
    => LET sts == StatementsFrom(tree, 1)
           st == sts[Len(sts)]
           before == parse_stylesheet(SubSeq(tree, 1, st.first - 1))
       IN  (st.at /\ st.cut /\ before.exc = "none")
           => /\ result.exc = "none"
              /\ result.ret = before.ret

(***************************************************************************)
(* parse_declaration_list on the grouped form of every short block         *)
(* content.                                                                *)
(***************************************************************************)
DeclAlphabet ==
    {tIdent, tIDENT, tS, tColon, tSemi, tNumber, tAt, tCDO, tLBrace, tRBrace,
     tLParen, tRParen}

\* '; ;a:1', 'a:1;;A:1', 'a:1;A;a:1', 'a:1 ; A : 1 1 ' and 'a:1;1:a;A:1'
DeclExamples ==
    { <<tSemi, tS, tSemi, tIdent, tColon, tNumber>>,
      <<tIdent, tColon, tNumber, tSemi, tSemi, tIDENT, tColon, tNumber>>,
      <<tIdent, tColon, tNumber, tSemi, tIDENT, tSemi, tIdent, tColon,
        tNumber>>,
      <<tIdent, tColon, tNumber, tS, tSemi, tS, tIDENT, tS, tColon, tS,
        tNumber, tS, tNumber, tS>>,
      <<tIdent, tColon, tNumber, tSemi, tNumber, tColon, tIdent, tSemi,
        tIDENT, tColon, tNumber>> }

InitDecl ==
    /\ flat \in {<<>>} \cup DeclExamples
    /\ tree = <<>>
    /\ text = <<>>
    /\ result = None
    /\ pc = "input"

AddDeclToken ==
    /\ pc = "input"
    /\ Len(flat) < MaxDeclLen
    /\ \E t \in DeclAlphabet : flat' = Append(flat, t)
    /\ UNCHANGED <<tree, text, result, pc>>

\* parse_declaration_list(tokens) on the grouped tokens
ParseDeclarationList ==
    /\ pc = "grouped"
    /\ result' = parse_declaration_list(tree)
    /\ pc' = "parsed"
    /\ UNCHANGED <<flat, tree, text>>

NextDecl == AddDeclToken \/ Group \/ ParseDeclarationList

SpecDecl == InitDecl /\ [][NextDecl]_vars

(***************************************************************************)
(* What the declaration parsers are to do, stated on the block content.    *)
(***************************************************************************)
RECURSIVE SplitAtSemicolon(_, _)

\* the runs of tokens between the ';' tokens, current being the run so far
SplitAtSemicolon(tokens, current) ==
    IF tokens = <<>> THEN <<current>>
    ELSE IF Head(tokens).type = ";"
    THEN <<current>> \o SplitAtSemicolon(Tail(tokens), <<>>)
    ELSE SplitAtSemicolon(Tail(tokens), Append(current, Head(tokens)))

NotEmpty(seq) == seq /= <<>>

\* the ';'-separated parts without their leading whitespace, the parts of
\* zero tokens left out
NonEmptyParts(tokens) ==
    LET runs == SplitAtSemicolon(tokens, <<>>)
    IN  SelectSeq([k \in 1..Len(runs) |-> DropLeadingS(runs[k])], NotEmpty)

\* no ';' ends a part of zero tokens
NoEmptyPart(tokens) ==
    LET runs == SplitAtSemicolon(tokens, <<>>)
    IN  \A k \in 1..(Len(runs) - 1) : DropLeadingS(runs[k]) /= <<>>

RECURSIVE JoinWithSemicolon(_)

\* the parts put together again with one ';' between two of them
JoinWithSemicolon(parts) ==
    IF parts = <<>> THEN <<>>
    ELSE IF Len(parts) = 1 THEN parts[1]
    ELSE parts[1] \o <<tSemi>> \o JoinWithSemicolon(Tail(parts))

\* the tokens after the first ':' of a part, whitespace trimmed at both ends
ValueOf(part) ==
    LET colon == FirstOfType(part, 2, {":"})
    IN  StripTrailingS(DropLeadingS(SubSeq(part, colon + 1, Len(part))))

\* a token is allowed in a value: a '{' container that satisfies 'block',
\* or a token that satisfies 'any'
ValueProduction(token) ==
    IF token.type = "{" THEN IsContainer(token) /\ BlockProduction(token)
    ELSE AnyProduction(token)

\* a part has a property name and a ':' with only whitespace between them
HasNameAndColon(part) ==
    LET colon == FirstOfType(part, 2, {":"})
    IN  /\ part[1].type = "IDENT"
        /\ colon /= 0
        /\ \A j \in 2..(colon - 1) : part[j].type = "S"

\* a part is an invalid declaration: first token not an identifier, a
\* non-whitespace token before ':', no ':', or an empty or invalid value
InvalidDeclaration(part) ==
    \/ ~HasNameAndColon(part)
    \/ ValueOf(part) = <<>>
    \/ \E j \in 1..Len(ValueOf(part)) : ~ValueProduction(ValueOf(part)[j])

\* the declaration of a valid part: the property name lower-cased, the value
ExpectedDeclaration(part) ==
    PyTuple(<<PyStr(Lower(part[1].value)), PyList(ValueOf(part))>>)

RECURSIVE ExpectedDeclarations(_)

\* the declarations of the valid parts, in source order
ExpectedDeclarations(parts) ==
    IF parts = <<>> THEN <<>>
    ELSE (IF InvalidDeclaration(Head(parts)) THEN <<>>
          ELSE <<ExpectedDeclaration(Head(parts))>>)
         \o ExpectedDeclarations(Tail(parts))

(***************************************************************************)
(* C3: declaration isolation.  For any block content                       *)
(* parse_declaration_list returns normally; each invalid part adds exactly *)
(* one error and no declaration, every other part adds its declaration,    *)
(* and the declarations keep source order.  (Stated for the contents in    *)
(* which no ';' ends a part of zero tokens; those are the case of C4.)     *)
(***************************************************************************)
C3_DeclarationIsolation ==
    (pc = "parsed" /\ NoEmptyPart(tree)) =>
        LET parts == NonEmptyParts(tree)
        IN  /\ result.exc = "none"
            /\ result.ret.items[1].items = ExpectedDeclarations(parts)
            /\ Len(result.ret.items[2].items)
                   = Cardinality({k \in 1..Len(parts) :
                                      InvalidDeclaration(parts[k])})

(***************************************************************************)
(* C4: empty declarations are skipped silently.  A part of zero tokens     *)
(* gives neither a declaration nor an error and does not change how the    *)
(* other parts are parsed: the outcome is that of the content without its  *)
(* empty parts, so '; ;a:1' gives the one declaration a: 1 and no error.   *)
(***************************************************************************)
C4_EmptyDeclarationsSkipped ==
    pc = "parsed" =>
        LET alone == parse_declaration_list(
                         JoinWithSemicolon(NonEmptyParts(tree)))
        IN  /\ result.exc = alone.exc
            /\ result.ret = alone.ret
            /\ flat = <<tSemi, tS, tSemi, tIdent, tColon, tNumber>>
               => /\ result.exc = "none"
                  /\ result.ret =
                         SheetResult(<<PyTuple(<<PyStr(<<"a">>),
                                                 PyList(<<tNumber>>)>>)>>,
                                     <<>>)

(***************************************************************************)
(* C10: blocks inside values.  For a declaration whose value holds a '{'   *)
(* container and otherwise tokens that satisfy 'any', the container is     *)
(* accepted exactly when its children satisfy 'block': then the value is   *)
(* returned with the container in it, else the declaration fails with one  *)
(* recoverable ParseError.                                                 *)
(***************************************************************************)
C10_BlockInValue ==
    (/\ pc = "parsed"
     /\ tree /= <<>>
     /\ \A k \in 1..Len(tree) : tree[k].type /= ";"
     /\ tree[1].type /= "S"
     /\ HasNameAndColon(tree)
     /\ \E j \in 1..Len(ValueOf(tree)) : ValueOf(tree)[j].type = "{"
     /\ \A j \in 1..Len(ValueOf(tree)) :
            ValueOf(tree)[j].type /= "{" => AnyProduction(ValueOf(tree)[j]))
    => /\ result.exc = "none"
       /\ IF \A j \in 1..Len(ValueOf(tree)) : ValueProduction(ValueOf(tree)[j])
          THEN result.ret = SheetResult(<<ExpectedDeclaration(tree)>>, <<>>)
          ELSE /\ result.ret.items[1].items = <<>>
               /\ Len(result.ret.items[2].items) = 1

====
